---- MODULE Spec2Model ----
(***************************************************************************)
(* Cloudflare Terraform provider: the Origin CA certificate resource       *)
(* (create / read / delete and CSR validation) and the DNS record state    *)
(* migration (schema version 0 -> 1).                                      *)
(*                                                                         *)
(* Three specifications share the module:                                  *)
(*   SpecCert    - lifecycle of one Origin CA certificate resource         *)
(*   SpecCSR     - validateCSR applied to bounded inputs                   *)
(*   SpecMigrate - the DNS record state migration on bounded inputs        *)
(***************************************************************************)
EXTENDS Integers, Sequences, FiniteSets, TLC

VARIABLES
  d,          \* *schema.ResourceData of the certificate resource
  ret,        \* what the last lifecycle function returned (error or nil)
  op,         \* the last lifecycle function that ran
  calls,      \* API calls issued by the last lifecycle function, in order
  resp,       \* what the last API call returned, as far as its caller reads it
  issued,     \* id returned by the most recent successful create call
  csrIn,      \* validateCSR: the value under validation
  csrOut,     \* validateCSR: the (ws, errors) it returned, once it is done
  is,         \* migration: the terraform.InstanceState
  dns,        \* migration: the DNS records the remote zone holds
  migRet,     \* migration: error returned by the last run ("" = nil)
  migCalls,   \* migration: API calls issued by the last run
  ver,        \* migration: schema version the last run was given
  runs        \* migration: number of runs so far

certVars == <<d, ret, op, calls, resp, issued>>
csrVars == <<csrIn, csrOut>>
migVars == <<is, dns, migRet, migCalls, ver, runs>>
vars == <<d, ret, op, calls, resp, issued, csrIn, csrOut, is, dns, migRet, migCalls, ver, runs>>

(***************************************************************************)
(* Strings                                                                 *)
(***************************************************************************)

\* strings.Contains(s, sub)
Contains(s, sub) ==
  \E i \in 1..(Len(s) - Len(sub) + 1) : SubSeq(s, i, i + Len(sub) - 1) = sub

\* the substring by which Read recognises a certificate that no longer exists
NotFoundText == "Failed to read certificate from Database"

(***************************************************************************)
(* time.Time, reduced to whole seconds and nanoseconds since the zero time *)
(***************************************************************************)

ZeroTime == [sec |-> 0, nsec |-> 0]

Digit(n) == SubSeq("0123456789", n + 1, n + 1)

\* t.Format(time.RFC3339): the layout has no fractional seconds
FormatRFC3339(t) == "0001-01-01T00:00:0" \o Digit(t.sec) \o "Z"

(***************************************************************************)
(* The remote API                                                          *)
(***************************************************************************)

CertIDs == {"cert-1", "cert-2"}

CertTexts == {"PEM-1", "PEM-2"}

Hostnames == {"a.example.com", "b.example.com"}

CSRs == {"csr-1", "csr-2"}

\* hostname lists the API may return, duplicates included
HostnameLists ==
  {<<"b.example.com", "a.example.com">>, <<"b.example.com", "b.example.com">>}

ErrMsgs ==
  {"Failed to read certificate from Database",
   "error from makeRequest: HTTP status 404: Failed to read certificate from Database (1101)",
   "error from makeRequest: HTTP status 500: internal server error",
   "Failed to read certificate"}

\* cloudflare.OriginCACertificate as returned by the API
ZeroCert ==
  [ID |-> "", Certificate |-> "", Hostnames |-> <<>>, ExpiresOn |-> ZeroTime,
   RequestType |-> "", RevokedAt |-> ZeroTime]

RemoteCerts ==
  [ID : CertIDs, Certificate : CertTexts, Hostnames : HostnameLists,
   ExpiresOn : {[sec |-> 1, nsec |-> 0], [sec |-> 2, nsec |-> 1]},
   RequestType : {"origin-ecc"},
   RevokedAt : {ZeroTime, [sec |-> 0, nsec |-> 1], [sec |-> 1, nsec |-> 0]}]

\* (cert, err) of one API call: err = "" is a nil error
Outcomes ==
  {[cert |-> ZeroCert, err |-> m] : m \in ErrMsgs}
    \cup {[cert |-> c, err |-> ""] : c \in RemoteCerts}

\* (*schema.Set).List(): the members of the set, each once, in some order
SetList(S) ==
  {s \in UNION {[1..n -> S] : n \in {Cardinality(S)}} : {s[i] : i \in DOMAIN s} = S}

\* schema.NewSet(schema.HashString, ...) followed by Add of every element
NewSet(list) == {list[i] : i \in DOMAIN list}

NoResp == [cert |-> ZeroCert, err |-> ""]

Nil == [isErr |-> FALSE, msg |-> ""]

Errorf(msg) == [isErr |-> TRUE, msg |-> msg]

(***************************************************************************)
(* resourceCloudflareOriginCACertificateCreate                             *)
(***************************************************************************)

\* d.GetOk("requested_validity"): ok only for a value that is set and not zero
GetOkValidity(dd) == dd.requested_validity # 0

\* a create request that always carries a validity period (the API's default)
CertInputAlwaysValidity(dd, hostnames) ==
  [CSR |-> dd.csr,
   Hostnames |-> hostnames,
   RequestType |-> dd.request_type,
   RequestValidity |-> IF GetOkValidity(dd) THEN dd.requested_validity ELSE 5475]

CertInput(dd, hostnames) ==
  [CSR |-> dd.csr,
   Hostnames |-> hostnames,
   RequestType |-> dd.request_type,
   RequestValidity |-> IF GetOkValidity(dd) THEN dd.requested_validity ELSE 0]

CreateResult(dd, out) ==
  IF out.err # ""
    THEN [d |-> dd, ret |-> Errorf("Error creating origin certificate: " \o out.err)]
    ELSE [d |-> [dd EXCEPT !.id = out.cert.ID,
                           !.certificate = out.cert.Certificate,
                           !.expires_on = FormatRFC3339(out.cert.ExpiresOn)],
          ret |-> Nil]

Create ==
  \E hostnames \in SetList(d.hostnames), out \in Outcomes :
    LET r == CreateResult(d, out) IN
      /\ d' = r.d
      /\ ret' = r.ret
      /\ op' = "Create"
      /\ calls' = <<[api |-> "CreateOriginCertificate", arg |-> CertInput(d, hostnames)]>>
      /\ resp' = [out EXCEPT !.cert.Hostnames = <<>>, !.cert.RequestType = "",
                               !.cert.RevokedAt = ZeroTime]
      /\ issued' = IF out.err = "" THEN out.cert.ID ELSE issued
      /\ UNCHANGED <<csrVars, migVars>>

(***************************************************************************)
(* resourceCloudflareOriginCACertificateRead                               *)
(***************************************************************************)

\* not-found recognised only when the whole message is the not-found text
IsNotFoundExact(err) == err = NotFoundText

\* not-found recognised by a shorter prefix of the not-found text
IsNotFoundLoose(err) == Contains(err, "Failed to read certificate")

IsNotFound(err) == Contains(err, NotFoundText)

\* revocation tested on the whole seconds of the timestamp only
IsRevokedSecondsOnly(cert) == cert.RevokedAt.sec # 0

IsRevoked(cert) == cert.RevokedAt # ZeroTime

\* a Read that also adopts the id of the certificate the API returned
ReadResultAdoptsID(dd, out) ==
  IF out.err # ""
    THEN IF IsNotFound(out.err)
           THEN [d |-> [dd EXCEPT !.id = ""], ret |-> Nil]
           ELSE [d |-> dd,
                 ret |-> Errorf("Error finding OriginCACertificate \"" \o dd.id
                                  \o "\": " \o out.err)]
    ELSE IF IsRevoked(out.cert)
           THEN [d |-> [dd EXCEPT !.id = ""], ret |-> Nil]
           ELSE [d |-> [dd EXCEPT !.id = out.cert.ID,
                                  !.certificate = out.cert.Certificate,
                                  !.expires_on = FormatRFC3339(out.cert.ExpiresOn),
                                  !.hostnames = NewSet(out.cert.Hostnames),
                                  !.request_type = out.cert.RequestType],
                 ret |-> Nil]

ReadResult(dd, out) ==
  IF out.err # ""
    THEN IF IsNotFound(out.err)
           THEN [d |-> [dd EXCEPT !.id = ""], ret |-> Nil]
           ELSE [d |-> dd,
                 ret |-> Errorf("Error finding OriginCACertificate \"" \o dd.id
                                  \o "\": " \o out.err)]
    ELSE IF IsRevoked(out.cert)
           THEN [d |-> [dd EXCEPT !.id = ""], ret |-> Nil]
           ELSE [d |-> [dd EXCEPT !.certificate = out.cert.Certificate,
                                  !.expires_on = FormatRFC3339(out.cert.ExpiresOn),
                                  !.hostnames = NewSet(out.cert.Hostnames),
                                  !.request_type = out.cert.RequestType],
                 ret |-> Nil]

Read ==
  \E out \in Outcomes :
    LET r == ReadResult(d, out) IN
      /\ d' = r.d
      /\ ret' = r.ret
      /\ op' = "Read"
      /\ calls' = <<[api |-> "OriginCertificate", arg |-> d.id]>>
      /\ resp' = [out EXCEPT !.cert.ID = ""]
      /\ UNCHANGED <<issued, csrVars, migVars>>

(***************************************************************************)
(* resourceCloudflareOriginCACertificateDelete                             *)
(***************************************************************************)

\* a Delete that clears the id before it looks at the error
DeleteResultClearsFirst(dd, out) ==
  IF out.err # ""
    THEN [d |-> [dd EXCEPT !.id = ""],
          ret |-> Errorf("Error revoking Cloudflare OriginCACertificate: " \o out.err)]
    ELSE [d |-> [dd EXCEPT !.id = ""], ret |-> Nil]

DeleteResult(dd, out) ==
  IF out.err # ""
    THEN [d |-> dd,
          ret |-> Errorf("Error revoking Cloudflare OriginCACertificate: " \o out.err)]
    ELSE [d |-> [dd EXCEPT !.id = ""], ret |-> Nil]

Delete ==
  \E out \in Outcomes :
    LET r == DeleteResult(d, out) IN
      /\ d' = r.d
      /\ ret' = r.ret
      /\ op' = "Delete"
      /\ calls' = <<[api |-> "RevokeOriginCertificate", arg |-> d.id]>>
      /\ resp' = [out EXCEPT !.cert = ZeroCert]
      /\ UNCHANGED <<issued, csrVars, migVars>>

(***************************************************************************)
(* Specification of the certificate lifecycle                              *)
(***************************************************************************)

\* validateCSR has not returned yet
Pending == [done |-> FALSE, ws |-> <<>>, errors |-> <<>>]

CsrIdle == /\ csrIn = <<>>
           /\ csrOut = Pending

MigIdle == /\ is = "idle"
           /\ dns = <<>>
           /\ migRet = ""
           /\ migCalls = <<>>
           /\ ver = 0
           /\ runs = 0

CertIdle == /\ d = "idle"
            /\ ret = Nil
            /\ op = "idle"
            /\ calls = <<>>
            /\ resp = NoResp
            /\ issued = ""

\* a new resource: the configured attributes are set, with values the schema
\* admits, id and computed ones are not (requested_validity 0: not configured)
InitCert ==
  /\ d \in [id : {""}, certificate : {""}, expires_on : {""},
            hostnames : {{"a.example.com"}, Hostnames},
            request_type : {"origin-rsa"},
            csr : CSRs,
            requested_validity : {0, 5475}]
  /\ ret = Nil
  /\ op = "new"
  /\ calls = <<>>
  /\ resp = NoResp
  /\ issued = ""
  /\ CsrIdle
  /\ MigIdle

NextCert == Create \/ Read \/ Delete

SpecCert == InitCert /\ [][NextCert]_vars

(***************************************************************************)
(* Properties of the certificate lifecycle                                 *)
(***************************************************************************)

LastCall == calls[Len(calls)]

\* C4: a Read whose lookup fails with an error message containing the
\* not-found text clears the id, changes nothing else and returns no error.
C4_ReadNotFoundClearsId ==
  [][(op' = "Read" /\ resp'.err # "" /\ Contains(resp'.err, NotFoundText))
       => (d' = [d EXCEPT !.id = ""] /\ ret' = Nil)]_vars

C4_Witness ==
  /\ op = "Read"
  /\ Contains(resp.err, NotFoundText)
  /\ resp.err # NotFoundText
  /\ calls[1].arg \in CertIDs
  /\ d.id = ""
  /\ ret = Nil

\* C5: a Read whose lookup succeeds clears the id, returns no error and
\* leaves every attribute alone when the certificate's revocation timestamp is
\* not the zero time; otherwise it keeps the id and sets certificate,
\* expires_on, hostnames and request_type from the remote certificate.
C5_ReadRevoked ==
  [][(op' = "Read" /\ resp'.err = "")
       => /\ ret' = Nil
          /\ IF resp'.cert.RevokedAt # ZeroTime
               THEN d' = [d EXCEPT !.id = ""]
               ELSE /\ d'.id = d.id
                    /\ d'.certificate = resp'.cert.Certificate
                    /\ d'.expires_on = FormatRFC3339(resp'.cert.ExpiresOn)
                    /\ d'.hostnames
                         = {resp'.cert.Hostnames[i] : i \in DOMAIN resp'.cert.Hostnames}
                    /\ d'.request_type = resp'.cert.RequestType
                    /\ d'.csr = d.csr
                    /\ d'.requested_validity = d.requested_validity]_vars

C5_Witness ==
  /\ op = "Read"
  /\ resp.err = ""
  /\ resp.cert.RevokedAt = [sec |-> 0, nsec |-> 1]
  /\ calls[1].arg \in CertIDs
  /\ d.id = ""
  /\ d.certificate # resp.cert.Certificate
  /\ d.request_type # resp.cert.RequestType

\* C6: Delete issues exactly one revoke call, for the stored id; when the call
\* succeeds the id is cleared and no error is returned; when it fails an error
\* is returned and the resource data is unchanged.
C6_Delete ==
  [][op' = "Delete"
       => /\ calls' = <<[api |-> "RevokeOriginCertificate", arg |-> d.id]>>
          /\ resp'.err = "" => (d' = [d EXCEPT !.id = ""] /\ ret' = Nil)
          /\ resp'.err # "" => (d' = d /\ ret'.isErr)]_vars

C6_Witness ==
  /\ op = "Delete"
  /\ resp.err # ""
  /\ ret.isErr
  /\ d.id \in CertIDs
  /\ calls[1].arg = d.id

\* C7: Create issues exactly one create call carrying the csr, the hostnames
\* of the set (each once), the request type and the validity period (zero,
\* i.e. none, when it is not configured); on success id, certificate and
\* expires_on are the issued id, the returned text and the RFC 3339 form of
\* the returned expiry; on failure an error is returned and nothing changes.
C7_Create ==
  [][op' = "Create"
       => /\ Len(calls') = 1
          /\ calls'[1].api = "CreateOriginCertificate"
          /\ calls'[1].arg.CSR = d.csr
          /\ {calls'[1].arg.Hostnames[i] : i \in DOMAIN calls'[1].arg.Hostnames}
               = d.hostnames
          /\ Len(calls'[1].arg.Hostnames) = Cardinality(d.hostnames)
          /\ calls'[1].arg.RequestType = d.request_type
          /\ calls'[1].arg.RequestValidity = d.requested_validity
          /\ resp'.err = ""
               => /\ ret' = Nil
                  /\ d' = [d EXCEPT !.id = resp'.cert.ID,
                                    !.certificate = resp'.cert.Certificate,
                                    !.expires_on = FormatRFC3339(resp'.cert.ExpiresOn)]
          /\ resp'.err # "" => (ret'.isErr /\ d' = d)]_vars

C7_Witness ==
  /\ op = "Create"
  /\ resp.err = ""
  /\ resp.cert.ExpiresOn.nsec # 0
  /\ calls[1].arg.RequestValidity = 0
  /\ Len(calls[1].arg.Hostnames) = 2
  /\ d.id = resp.cert.ID
  /\ d.id # ""
  /\ d.expires_on = "0001-01-01T00:00:02Z"

\* C9: a Read whose lookup fails with an error message that does not contain
\* the not-found text returns an error carrying that message, after a single
\* lookup call, and leaves id and attributes unchanged.
C9_ReadUpstreamError ==
  [][(op' = "Read" /\ resp'.err # "" /\ ~Contains(resp'.err, NotFoundText))
       => /\ ret'.isErr
          /\ Contains(ret'.msg, resp'.err)
          /\ d' = d
          /\ calls' = <<[api |-> "OriginCertificate", arg |-> d.id]>>]_vars

C9_Witness ==
  /\ op = "Read"
  /\ resp.err = "Failed to read certificate"
  /\ ret.isErr
  /\ d.id \in CertIDs
  /\ d.certificate # ""

\* C10: the id is always empty or the id issued by the most recent successful
\* Create; Read and Delete leave the id alone or clear it, and never modify
\* csr or requested_validity.
C10_IdLifecycle ==
  /\ [](d.id = "" \/ d.id = issued)
  /\ [][op' \in {"Read", "Delete"}
          => /\ d'.id = d.id \/ d'.id = ""
             /\ d'.csr = d.csr
             /\ d'.requested_validity = d.requested_validity]_vars

C10_Witness ==
  /\ op = "Read"
  /\ resp.err = ""
  /\ resp.cert.RevokedAt = ZeroTime
  /\ d.id = issued
  /\ d.id # ""
  /\ d.hostnames = {"b.example.com"}

(***************************************************************************)
(* validateCSR                                                             *)
(*                                                                         *)
(* The value under validation is a text, one element per line. A line is   *)
(* a PEM BEGIN line or END line with its label, a line of base64 carrying  *)
(* DER data, or any other text. The DER data is the encoding of a          *)
(* certificate request ("csr") or of something else ("cert").              *)
(***************************************************************************)

MaxLines == 3

BeginLine(label) == [kind |-> "begin", text |-> label]

EndLine(label) == [kind |-> "end", text |-> label]

Base64Line(der) == [kind |-> "base64", text |-> der]

TextLine == [kind |-> "text", text |-> "not pem"]

Lines ==
  {BeginLine("CERTIFICATE REQUEST"), EndLine("CERTIFICATE REQUEST"),
   BeginLine("CERTIFICATE"), EndLine("CERTIFICATE"),
   Base64Line("csr"), Base64Line("cert"), TextLine}

CSRInputs == UNION {[1..n -> Lines] : n \in 0..MaxLines}

\* index of the first END line after line i, or 0
RECURSIVE FirstEnd(_, _)
FirstEnd(text, i) ==
  IF i >= Len(text) THEN 0
  ELSE IF text[i + 1].kind = "end" THEN i + 1
  ELSE FirstEnd(text, i + 1)

\* the block that starts at the BEGIN line i: the END line that follows
\* carries the same label and everything in between is base64
BlockAt(text, i) ==
  LET j == FirstEnd(text, i) IN
    IF /\ j # 0
       /\ text[j].text = text[i].text
       /\ \A k \in (i + 1)..(j - 1) : text[k].kind = "base64"
      THEN [found |-> TRUE, Type |-> text[i].text,
            Bytes |-> [k \in 1..(j - i - 1) |-> text[i + k].text]]
      ELSE [found |-> FALSE, Type |-> "", Bytes |-> <<>>]

\* pem.Decode: the first block of the text, searched from line i on; text
\* before it is skipped, a BEGIN line that opens no block is passed over
RECURSIVE pemDecodeFrom(_, _)
pemDecodeFrom(text, i) ==
  IF i > Len(text) THEN [found |-> FALSE, Type |-> "", Bytes |-> <<>>]
  ELSE IF text[i].kind = "begin" /\ BlockAt(text, i).found THEN BlockAt(text, i)
  ELSE pemDecodeFrom(text, i + 1)

pemDecode(text) == pemDecodeFrom(text, 1)

\* x509.ParseCertificateRequest: the error, "" for nil. The bytes must be one
\* certificate request and nothing else.
ParseCertificateRequest(bytes) ==
  IF bytes = <<>> THEN "asn1: syntax error: sequence truncated"
  ELSE IF bytes[1] # "csr" THEN "asn1: structure error: tags don't match"
  ELSE IF Len(bytes) > 1 THEN "x509: trailing data"
  ELSE ""

\* validateCSR with the return after the PEM error left out
validateCSRFallsThrough(v, k) ==
  LET block == pemDecode(v)
      e1 == IF ~block.found THEN <<"\"" \o k \o "\": invalid PEM data">> ELSE <<>>
      err == ParseCertificateRequest(block.Bytes)
  IN [done |-> TRUE, ws |-> <<>>,
      errors |-> IF err # "" THEN Append(e1, "\"" \o k \o "\": " \o err) ELSE e1]

\* validateCSR that insists on nothing after decoding the PEM block
validateCSRPemOnly(v, k) ==
  LET block == pemDecode(v) IN
    IF ~block.found
      THEN [done |-> TRUE, ws |-> <<>>, errors |-> <<"\"" \o k \o "\": invalid PEM data">>]
      ELSE [done |-> TRUE, ws |-> <<>>, errors |-> <<>>]

validateCSR(v, k) ==
  LET block == pemDecode(v) IN
    IF ~block.found
      THEN [done |-> TRUE, ws |-> <<>>, errors |-> <<"\"" \o k \o "\": invalid PEM data">>]
      ELSE LET err == ParseCertificateRequest(block.Bytes) IN
             IF err # ""
               THEN [done |-> TRUE, ws |-> <<>>, errors |-> <<"\"" \o k \o "\": " \o err>>]
               ELSE [done |-> TRUE, ws |-> <<>>, errors |-> <<>>]

Validate ==
  /\ ~csrOut.done
  /\ csrOut' = validateCSR(csrIn, "csr")
  /\ UNCHANGED <<csrIn, certVars, migVars>>

InitCSR ==
  /\ csrIn \in CSRInputs
  /\ csrOut = Pending
  /\ CertIdle
  /\ MigIdle

NextCSR == Validate

SpecCSR == InitCSR /\ [][NextCSR]_vars

\* the text holds a PEM block: a BEGIN line, later an END line with the same
\* label, and only base64 lines in between
HasPEMBlock(text) ==
  \E i, j \in DOMAIN text :
    /\ i < j
    /\ text[i].kind = "begin"
    /\ text[j].kind = "end"
    /\ text[j].text = text[i].text
    /\ \A k \in (i + 1)..(j - 1) : text[k].kind = "base64"

\* the text is one PEM block, labelled as a certificate request, around the
\* encoding of one certificate request
WellFormedCSR(text) ==
  text = <<BeginLine("CERTIFICATE REQUEST"), Base64Line("csr"),
           EndLine("CERTIFICATE REQUEST")>>

\* the first PEM block of the text carries one certificate request
FirstBlockIsCSR(text) ==
  \E i, j \in DOMAIN text :
    /\ j = i + 2
    /\ text[i].kind = "begin"
    /\ text[j].kind = "end"
    /\ text[j].text = text[i].text
    /\ text[i + 1] = Base64Line("csr")
    /\ \A m, n \in 1..(i + 1) :
         ~(/\ m < i
           /\ m < n
           /\ text[m].kind = "begin"
           /\ text[n].kind = "end"
           /\ text[n].text = text[m].text
           /\ \A k \in (m + 1)..(n - 1) : text[k].kind = "base64")

\* C8: validateCSR returns no warning and at most one error; exactly one
\* error when the text holds no PEM block, exactly one error when its first
\* PEM block is not the encoding of one certificate request, and no error
\* for a well-formed PEM certificate request.
C8_ValidateCSR ==
  csrOut.done
    => /\ csrOut.ws = <<>>
       /\ Len(csrOut.errors) <= 1
       /\ ~HasPEMBlock(csrIn) => Len(csrOut.errors) = 1
       /\ (HasPEMBlock(csrIn) /\ ~FirstBlockIsCSR(csrIn)) => Len(csrOut.errors) = 1
       /\ FirstBlockIsCSR(csrIn) => csrOut.errors = <<>>
       /\ WellFormedCSR(csrIn) => csrOut.errors = <<>>

C8_Witness ==
  /\ csrOut.done
  /\ WellFormedCSR(csrIn)
  /\ csrOut.errors = <<>>

C8_WitnessNotCSR ==
  /\ csrOut.done
  /\ csrIn = <<BeginLine("CERTIFICATE"), Base64Line("cert"), EndLine("CERTIFICATE")>>
  /\ Len(csrOut.errors) = 1

(***************************************************************************)
(* DNS record state migration                                              *)
(***************************************************************************)

MaxRecords == 2

MaxRuns == 2

\* an id of this length or longer is in the current format
LongIDLen == 32

\* strconv.Atoi on a string of decimal digits
RECURSIVE ParseInt(_)
ParseInt(s) ==
  IF Len(s) = 0 THEN 0
  ELSE 10 * ParseInt(SubSeq(s, 1, Len(s) - 1))
         + (CHOOSE n \in 0..9 : Digit(n) = SubSeq(s, Len(s), Len(s)))

\* strconv.ParseBool on a string it accepts
ParseBool(s) == s \in {"1", "t", "T", "TRUE", "true", "True"}

\* the name without its leftmost label: what follows the first dot
RECURSIVE StripLeftmostLabel(_)
StripLeftmostLabel(s) ==
  IF Len(s) = 0 THEN ""
  ELSE IF SubSeq(s, 1, 1) = "." THEN SubSeq(s, 2, Len(s))
  ELSE StripLeftmostLabel(SubSeq(s, 2, Len(s)))

\* the zones of the account (zoneResponse of the mocked API)
Zones == {[ID |-> "1234567890", Name |-> "hashicorptest.com"]}

\* ids of the remote records, by position in the zone's list (dnsResponse)
RecordIDs ==
  <<"7778f8766e583af8de0abfcd76c5dAAA", "5558f8766e583af8de0abfcd76c5dBBB",
    "2220a9593ab869199b65c89bddf72ddd", "222ffe3f93a31231ad6b0c6d09185jjj",
    "888ffe3f93a31231ad6b0c6d09185eee", "98y6t9ba87e6ee3e6aeba8f3dc52c81b">>

\* A records on either name, proxied or not; MX records on the zone's own name
RecordShapes ==
  [Name : {"sub.hashicorptest.com", "hashicorptest.com"},
   Type : {"A"}, TTL : {1, 120}, Proxied : BOOLEAN, Priority : {0}]
    \cup [Name : {"hashicorptest.com"},
          Type : {"MX"}, TTL : {1, 120}, Proxied : {FALSE}, Priority : {10, 20}]

Record(i, shape) ==
  [ID |-> RecordIDs[i], ZoneID |-> "1234567890", Name |-> shape.Name,
   Type |-> shape.Type, TTL |-> shape.TTL, Proxied |-> shape.Proxied,
   Priority |-> shape.Priority]

RecordLists ==
  UNION {{[i \in 1..n |-> Record(i, shapes[i])] : shapes \in [1..n -> RecordShapes]}
           : n \in 0..MaxRecords}

\* legacy attributes: "" stands for an attribute the state does not carry
AllLegacyAttributes ==
  {[id |-> i, name |-> nh[1], hostname |-> nh[2], type |-> tp[1],
    priority |-> tp[2], ttl |-> t, proxied |-> p, domain |-> dm,
    zone_id |-> "1234567890"] :
     i \in {"123456", "12345678901234567890123456789012"},
     nh \in {<<"sub", "sub.hashicorptest.com">>, <<"hashicorptest.com", "">>},
     tp \in {<<"A", "10">>, <<"MX", "10">>, <<"MX", "020">>},
     t \in {"001", "120"},
     p \in {"", "true", "0"},
     dm \in {"hashicorptest.com", ""}}

\* every state with a short id, and the A states among those with a long one
LegacyAttributes ==
  {a \in AllLegacyAttributes : a.id = "123456" \/ (a.type = "A" /\ a.proxied # "")}

\* the records the mocked API lists for every query (dnsResponse)
TestRecords ==
  <<[ID |-> "7778f8766e583af8de0abfcd76c5dAAA", ZoneID |-> "1234567890",
     Name |-> "notthesub.hashicorptest.com", Type |-> "A", TTL |-> 120,
     Proxied |-> FALSE, Priority |-> 0],
    [ID |-> "5558f8766e583af8de0abfcd76c5dBBB", ZoneID |-> "1234567890",
     Name |-> "notthesub.hashicorptest.com", Type |-> "A", TTL |-> 121,
     Proxied |-> FALSE, Priority |-> 0],
    [ID |-> "2220a9593ab869199b65c89bddf72ddd", ZoneID |-> "1234567890",
     Name |-> "maybethesub.hashicorptest.com", Type |-> "A", TTL |-> 120,
     Proxied |-> FALSE, Priority |-> 0],
    [ID |-> "222ffe3f93a31231ad6b0c6d09185jjj", ZoneID |-> "1234567890",
     Name |-> "tftestingsubv616.hashicorptest.com", Type |-> "A", TTL |-> 1,
     Proxied |-> FALSE, Priority |-> 0],
    [ID |-> "888ffe3f93a31231ad6b0c6d09185eee", ZoneID |-> "1234567890",
     Name |-> "tftestingsubv616.hashicorptest.com", Type |-> "A", TTL |-> 1,
     Proxied |-> TRUE, Priority |-> 0],
    [ID |-> "98y6t9ba87e6ee3e6aeba8f3dc52c81b", ZoneID |-> "1234567890",
     Name |-> "somecname.hashicorptest.com", Type |-> "CNAME", TTL |-> 120,
     Proxied |-> FALSE, Priority |-> 0],
    [ID |-> "12342092cbc4c391be33ce548713bba3", ZoneID |-> "1234567890",
     Name |-> "hashicorptest.com", Type |-> "MX", TTL |-> 1,
     Proxied |-> FALSE, Priority |-> 20],
    [ID |-> "12345678901234567890123456789012", ZoneID |-> "1234567890",
     Name |-> "hashicorptest.com", Type |-> "", TTL |-> 122,
     Proxied |-> TRUE, Priority |-> 0]>>

TestAttributes(id, name, hostname, type, ttl, priority, proxied) ==
  [id |-> id, name |-> name, hostname |-> hostname, type |-> type,
   priority |-> priority, ttl |-> ttl, proxied |-> proxied,
   domain |-> "hashicorptest.com", zone_id |-> "1234567890"]

\* the cases of TestCloudflareRecordMigrateState: attributes of the state,
\* the id expected after the migration and whether the migration is to fail
TestCases ==
  {[name |-> "ttl_120", ShouldFail |-> FALSE,
    Expected |-> "7778f8766e583af8de0abfcd76c5dAAA",
    Attributes |-> TestAttributes("123456", "notthesub",
                     "notthesub.hashicorptest.com", "A", "120", "", "")],
   [name |-> "ttl_121", ShouldFail |-> FALSE,
    Expected |-> "5558f8766e583af8de0abfcd76c5dBBB",
    Attributes |-> TestAttributes("123456", "notthesub",
                     "notthesub.hashicorptest.com", "A", "121", "", "")],
   [name |-> "mx_priority", ShouldFail |-> FALSE,
    Expected |-> "12342092cbc4c391be33ce548713bba3",
    Attributes |-> TestAttributes("123456", "hashicorptest.com", "", "MX", "1",
                     "20", "")],
   [name |-> "mx_priority_mismatch", ShouldFail |-> TRUE,
    Expected |-> "12342092cbc4c391be33ce548713bba3",
    Attributes |-> TestAttributes("123456", "hashicorptest.com", "", "MX", "1",
                     "10", "")],
   [name |-> "proxied", ShouldFail |-> FALSE,
    Expected |-> "888ffe3f93a31231ad6b0c6d09185eee",
    Attributes |-> TestAttributes("123456", "tftestingsubv616",
                     "tftestingsubv616.hashicorptest.com", "A", "1", "", "true")],
   [name |-> "not_proxied", ShouldFail |-> FALSE,
    Expected |-> "222ffe3f93a31231ad6b0c6d09185jjj",
    Attributes |-> TestAttributes("123456", "tftestingsubv616",
                     "tftestingsubv616.hashicorptest.com", "A", "1", "", "false")],
   [name |-> "ttl_122_state_v0_with_v1_fields", ShouldFail |-> FALSE,
    Expected |-> "12345678901234567890123456789012",
    Attributes |-> [TestAttributes("12345678901234567890123456789012",
                      "hashicorptest.com", "hashicorptest.com", "A", "122", "0",
                      "true") EXCEPT !.domain = ""]]}

\* the current format recognised one character too late
IsLongIDOffByOne(id) == Len(id) > LongIDLen

IsLongID(id) == Len(id) >= LongIDLen

\* step 2: the domain attribute, or the hostname (else the name) without its
\* leftmost label
TargetDomain(attrs) ==
  IF attrs.domain # "" THEN attrs.domain
  ELSE IF attrs.hostname # "" THEN StripLeftmostLabel(attrs.hostname)
  ELSE StripLeftmostLabel(attrs.name)

\* step 3: the id of the zone with that name, "" when there is none
ZoneIDByName(domain) ==
  IF \E z \in Zones : z.Name = domain
    THEN (CHOOSE z \in Zones : z.Name = domain).ID
    ELSE ""

\* step 4: the DNS records of the zone
DNSRecords(zoneID, records) ==
  SelectSeq(records, LAMBDA r : r.ZoneID = zoneID)

\* step 5: name (or hostname) and type
MatchesNameType(attrs, r) ==
  /\ r.Name = attrs.name \/ r.Name = attrs.hostname
  /\ r.Type = attrs.type

\* step 6: ttl, as integers; an attribute the state lacks excludes nothing
MatchesTTL(attrs, r) ==
  attrs.ttl # "" => ParseInt(attrs.ttl) = r.TTL

\* proxied left out of the comparison
MatchesProxiedIgnored(attrs, r) == TRUE

\* step 6: proxied, as booleans
MatchesProxied(attrs, r) ==
  attrs.proxied # "" => ParseBool(attrs.proxied) = r.Proxied

\* step 6: priority, as integers, for MX records only
MatchesPriority(attrs, r) ==
  (attrs.type = "MX" /\ attrs.priority # "") => ParseInt(attrs.priority) = r.Priority

Candidates(attrs, listed) ==
  LET byNameType == SelectSeq(listed, LAMBDA r : MatchesNameType(attrs, r))
      byTTL == SelectSeq(byNameType, LAMBDA r : MatchesTTL(attrs, r))
      byProxied == SelectSeq(byTTL, LAMBDA r : MatchesProxied(attrs, r))
  IN SelectSeq(byProxied, LAMBDA r : MatchesPriority(attrs, r))

\* the first candidate adopted, however many there are
AdoptFirst(st, cands, apiCalls) ==
  IF Len(cands) >= 1
    THEN [is |-> [ID |-> cands[1].ID,
                  Attributes |-> [st.Attributes EXCEPT !.id = cands[1].ID]],
          err |-> "", calls |-> apiCalls]
    ELSE [is |-> st, err |-> "ambiguous or missing record", calls |-> apiCalls]

\* step 7: exactly one candidate, or failure
Adopt(st, cands, apiCalls) ==
  IF Len(cands) = 1
    THEN [is |-> [ID |-> cands[1].ID,
                  Attributes |-> [st.Attributes EXCEPT !.id = cands[1].ID]],
          err |-> "", calls |-> apiCalls]
    ELSE [is |-> st, err |-> "ambiguous or missing record", calls |-> apiCalls]

MigrateState(v, st, records) ==
  IF v # 0 THEN [is |-> st, err |-> "", calls |-> <<>>]
  ELSE IF IsLongID(st.ID) THEN [is |-> st, err |-> "", calls |-> <<>>]
  ELSE LET zoneID == ZoneIDByName(TargetDomain(st.Attributes)) IN
         IF zoneID = ""
           THEN [is |-> st, err |-> "zone not found", calls |-> <<"ZoneIDByName">>]
           ELSE Adopt(st, Candidates(st.Attributes, DNSRecords(zoneID, records)),
                      <<"ZoneIDByName", "DNSRecords">>)

Migrate ==
  /\ runs < MaxRuns
  /\ \E v \in {0, 1} :
       LET r == MigrateState(v, is, dns) IN
         /\ is' = r.is
         /\ migRet' = r.err
         /\ migCalls' = r.calls
         /\ ver' = v
  /\ runs' = runs + 1
  /\ UNCHANGED <<dns, certVars, csrVars>>

\* a bounded legacy state against a bounded zone, or a case of the test
\* against the records of the mocked API
InitMigrate ==
  /\ \/ /\ \E attrs \in LegacyAttributes : is = [ID |-> attrs.id, Attributes |-> attrs]
        /\ dns \in RecordLists
     \/ /\ \E tc \in TestCases : is = [ID |-> tc.Attributes.id, Attributes |-> tc.Attributes]
        /\ dns = TestRecords
  /\ migRet = ""
  /\ migCalls = <<>>
  /\ ver = 0
  /\ runs = 0
  /\ CertIdle
  /\ CsrIdle

NextMigrate == Migrate

SpecMigrate == InitMigrate /\ [][NextMigrate]_vars

(***************************************************************************)
(* Properties of the migration                                             *)
(***************************************************************************)

\* the zone lookup of the state's domain finds a zone
ZoneResolves(attrs) == \E z \in Zones : z.Name = TargetDomain(attrs)

\* the record equals the state on name (or hostname), type, ttl, proxied and,
\* for MX, priority; ttl and priority as integers, proxied as a boolean; an
\* attribute the state does not carry is not compared
EqualsState(attrs, r) ==
  /\ r.Name \in {attrs.name, attrs.hostname}
  /\ r.Type = attrs.type
  /\ attrs.ttl = "" \/ ParseInt(attrs.ttl) = r.TTL
  /\ attrs.proxied = "" \/ ParseBool(attrs.proxied) = r.Proxied
  /\ attrs.type # "MX" \/ attrs.priority = "" \/ ParseInt(attrs.priority) = r.Priority

Matching(attrs, records) == {i \in DOMAIN records : EqualsState(attrs, records[i])}

\* every case of TestCloudflareRecordMigrateState gets the outcome the test
\* expects
TestsPass ==
  \A tc \in TestCases :
    LET r == MigrateState(0, [ID |-> tc.Attributes.id, Attributes |-> tc.Attributes],
                          TestRecords)
    IN IF tc.ShouldFail THEN r.err # "" ELSE r.err = "" /\ r.is.ID = tc.Expected

\* C1: a version-0 migration of a state with a short id whose zone resolves
\* and which exactly one remote record equals succeeds, and the state's id
\* becomes the id of that record; the other attributes are unchanged.
C1_UniqueMatchAdopted ==
  [][(ver' = 0 /\ runs' = runs + 1 /\ ~(Len(is.ID) >= 32)
        /\ ZoneResolves(is.Attributes)
        /\ Cardinality(Matching(is.Attributes, dns)) = 1)
       => \E i \in Matching(is.Attributes, dns) :
            /\ migRet' = ""
            /\ is'.ID = dns[i].ID
            /\ is'.Attributes = [is.Attributes EXCEPT !.id = dns[i].ID]]_vars

C1_Witness ==
  /\ runs = 1
  /\ ver = 0
  /\ migRet = ""
  /\ Len(dns) = 2
  /\ is.ID = dns[2].ID
  /\ is.Attributes.proxied = "0"
  /\ is.Attributes.ttl = "001"
  /\ dns[1].Name = dns[2].Name
  /\ dns[1].Type = dns[2].Type
  /\ dns[1].TTL = dns[2].TTL
  /\ dns[1].Proxied # dns[2].Proxied

C2_WitnessAmbiguous ==
  /\ runs = 1
  /\ ver = 0
  /\ migRet # ""
  /\ Cardinality(Matching(is.Attributes, dns)) = 2

\* C3: a migration of a state whose id has 32 or more characters returns the
\* state unchanged, without error and without any API call; and a version-0
\* migration that follows a successful one changes nothing and issues no call.
C3_LongIDUnchanged ==
  [][/\ (runs' = runs + 1 /\ Len(is.ID) >= 32)
          => (is' = is /\ migRet' = "" /\ migCalls' = <<>>)
     /\ (runs' = runs + 1 /\ runs >= 1 /\ ver = 0 /\ migRet = "" /\ ver' = 0)
          => (is' = is /\ migRet' = "" /\ migCalls' = <<>>)]_vars

\* the second of two version-0 runs, after the first adopted a record's id
C3_Witness ==
  /\ runs = 2
  /\ ver = 0
  /\ migRet = ""
  /\ migCalls = <<>>
  /\ is.Attributes.ttl = "001"
  /\ \E i \in DOMAIN dns : is.ID = dns[i].ID

\* a state that came with a 32-character id, after one version-0 run
C3_WitnessLegacyLong ==
  /\ runs = 1
  /\ ver = 0
  /\ migCalls = <<>>
  /\ is.ID = "12345678901234567890123456789012"
  /\ Len(dns) = 2

====
